---------------------------- MODULE Spec2Model ----------------------------
(***************************************************************************)
(* A model of the webway-c telemetry pipeline: the AutomationData record,  *)
(* its generation, its fixed-layout serialization, and the Kafka producer  *)
(* that publishes it (kafka_producer.c on top of the librdkafka client).   *)
(*                                                                         *)
(* Values are modelled with their C widths: int32_t as an integer in       *)
(* -2^31 .. 2^31-1, uint64_t as four 16-bit limbs, float as its IEEE-754   *)
(* binary32 fields (sign, biased exponent, fraction), and memory as        *)
(* sequences of bytes in the host's (little-endian) byte order.            *)
(***************************************************************************)
EXTENDS Integers, Sequences, FiniteSets, TLC

VARIABLES
    data,       \* AutomationData* of the codec run: <<>> (NULL) or <<record>>
    ser,        \* the last automation_data_serialize call: ret, buffer, size, writes
    des,        \* the last automation_data_deserialize call: input, result, reads
    seeded,     \* the static int seeded of automation_data_new, and srand's calls
    producer,   \* KafkaProducer*: NULL, or <<the struct>> (live or freed)
    heap,       \* the objects kafka_producer_create allocated that are not released
    outq,       \* the client's send queue: messages accepted, no delivery report yet
    drq,        \* delivery reports the client holds until a poll serves them
    callbacks,  \* what delivery_report_callback has printed, in order
    accepted,   \* the number of messages the client has accepted (the last one's id)
    broker,     \* "reachable" or "unreachable"
    pc,         \* the foreground thread: "idle", "send_poll" or "flushing"
    call,       \* the API call in progress or last returned, with its return value
    remaining,  \* rd_kafka_flush: what is left of the timeout (-1: no limit)
    demo        \* run_kafka_demo: its position, i, total_raw_size and what it has called

codecVars == <<data, ser, des, seeded>>
producerVars == <<producer, heap, outq, drq, callbacks, accepted, broker, pc, call, remaining>>
vars == <<data, ser, des, seeded,
          producer, heap, outq, drq, callbacks, accepted, broker, pc, call, remaining,
          demo>>

NULL == <<>>
Ptr(x) == <<x>>
Deref(p) == p[1]

Min(a, b) == IF a < b THEN a ELSE b
Range(f) == {f[i] : i \in DOMAIN f}

-----------------------------------------------------------------------------
(* Bounds of the model. *)

\* The arrays hold NumSamples floats each in the model (780000 in the program).
NumSamples == 2
\* The calls of kafka_send_automation_data the client accepts in one run.
MaxSends == 3
\* The messages the client's queue holds (queue.buffering.max.messages).
MaxQueue == 2
\* The longest finite timeout_ms a flush is called with, in clock ticks.
MaxTimeout == 2

-----------------------------------------------------------------------------
(* Program constants. *)

REAL_DATA_SIZE == 780000
NORMALIZED_DATA_SIZE == NumSamples
UNNORMALIZED_DATA_SIZE == NumSamples
RAND_MAX == 2147483647
MESSAGE_KEY == 12345

SizeofInt32 == 4
SizeofUint64 == 8
SizeofFloat == 4

-----------------------------------------------------------------------------
(* IEEE-754 binary32 arithmetic (round to nearest, ties to even), for the  *)
(* normal numbers and zero the generator produces.  A float is             *)
(* [s, e, m]: sign bit, biased exponent, 23-bit fraction.                  *)

RECURSIVE BitLen(_)
BitLen(n) == IF n = 0 THEN 0 ELSE 1 + BitLen(n \div 2)

\* (n + sigma) / 2^k rounded to nearest, ties to even; sigma in (0,1) iff sticky.
RoundNearestEven(n, k, sticky) ==
    LET q == n \div (2^k)
        r == n % (2^k)
        half == 2^(k-1)
        up == \/ r > half
              \/ r = half /\ sticky
              \/ r = half /\ ~sticky /\ q % 2 = 1
    IN  IF up THEN q + 1 ELSE q

\* The float nearest to (-1)^sign * (n + sigma) * 2^E.
FloatRound(sign, n, sticky, E) ==
    IF n = 0 THEN [s |-> 0, e |-> 0, m |-> 0]
    ELSE LET b == BitLen(n)
             q == IF b > 24 THEN RoundNearestEven(n, b - 24, sticky)
                            ELSE n * 2^(24 - b)
             carry == (q = 16777216)
             mant == IF carry THEN 8388608 ELSE q
             exp2 == (b - 1) + E + (IF carry THEN 1 ELSE 0)
         IN  [s |-> sign, e |-> exp2 + 127, m |-> mant - 8388608]

FIsZero(a) == a.e = 0 /\ a.m = 0
FMant(a) == 8388608 + a.m         \* the 24-bit significand
FExp(a) == a.e - 127 - 23         \* value = FMant * 2^FExp

\* (float)i for an int i >= 0
FloatOfInt(i) == FloatRound(0, i, FALSE, 0)

\* quotient bits of rem/den, most significant first; <<bits, remainder>>
RECURSIVE LongDiv(_, _, _, _)
LongDiv(rem, den, bits, acc) ==
    IF bits = 0 THEN <<acc, rem>>
    ELSE IF rem >= den THEN LongDiv(2 * (rem - den), den, bits - 1, 2 * acc + 1)
                       ELSE LongDiv(2 * rem, den, bits - 1, 2 * acc)

\* a / b
FDiv(a, b) ==
    IF FIsZero(a) THEN [s |-> 0, e |-> 0, m |-> 0]
    ELSE LET d == LongDiv(FMant(a), FMant(b), 27, 0)
         IN  FloatRound((a.s + b.s) % 2, d[1], d[2] # 0, FExp(a) - FExp(b) - 26)

\* a * b, the 48-bit product formed from 12-bit halves
FMul(a, b) ==
    IF FIsZero(a) \/ FIsZero(b) THEN [s |-> 0, e |-> 0, m |-> 0]
    ELSE LET ah == FMant(a) \div 4096
             al == FMant(a) % 4096
             bh == FMant(b) \div 4096
             bl == FMant(b) % 4096
             mid == ah * bl + al * bh
             lo == (mid % 4096) * 4096 + al * bl
             hi == ah * bh + (mid \div 4096) + (lo \div 16777216)
             lo24 == lo % 16777216
             n == hi * 4 + (lo24 \div 4194304)
         IN  FloatRound((a.s + b.s) % 2, n, (lo24 % 4194304) # 0,
                        FExp(a) + FExp(b) + 22)

\* x + y for x, y nonzero with |x| >= |y|, three guard bits and a sticky bit
FAddOrdered(x, y) ==
    LET d == FExp(x) - FExp(y)
        mx == FMant(x) * 8
        my8 == FMant(y) * 8
        my == IF d >= 27 THEN 0 ELSE my8 \div (2^d)
        sticky == IF d >= 27 THEN TRUE ELSE (my8 % (2^d)) # 0
    IN  IF x.s = y.s
        THEN FloatRound(x.s, mx + my, sticky, FExp(x) - 3)
        ELSE IF mx = my /\ ~sticky THEN [s |-> 0, e |-> 0, m |-> 0]
        ELSE IF sticky THEN FloatRound(x.s, mx - my - 1, TRUE, FExp(x) - 3)
        ELSE FloatRound(x.s, mx - my, FALSE, FExp(x) - 3)

FMagLess(a, b) == a.e < b.e \/ (a.e = b.e /\ a.m < b.m)

FAdd(a, b) ==
    IF FIsZero(a) THEN b
    ELSE IF FIsZero(b) THEN a
    ELSE IF FMagLess(a, b) THEN FAddOrdered(b, a) ELSE FAddOrdered(a, b)

FNeg(a) == IF FIsZero(a) THEN a ELSE [a EXCEPT !.s = 1 - a.s]
FSub(a, b) == FAdd(a, FNeg(b))

\* a < b and a >= b as C compares floats (no NaN arises)
FLess(a, b) ==
    IF FIsZero(a) /\ FIsZero(b) THEN FALSE
    ELSE IF a.s # b.s THEN a.s = 1 /\ ~(FIsZero(a) /\ FIsZero(b))
    ELSE IF a.s = 0 THEN FMagLess(a, b) ELSE FMagLess(b, a)

F_0 == FloatOfInt(0)
F_1 == FloatOfInt(1)
F_1000 == FloatOfInt(1000)
F_2000 == FloatOfInt(2000)


-----------------------------------------------------------------------------
(* Object representations: the bytes memcpy moves, little-endian.          *)

\* int32_t, two's complement
I32Bytes(v) ==
    LET w == IF v >= 0 THEN v ELSE (v + 2147483647) + 1   \* the low 31 bits
    IN  << w % 256, (w \div 256) % 256, (w \div 65536) % 256,
           (w \div 16777216) + (IF v < 0 THEN 128 ELSE 0) >>

I32OfBytes(b) ==
    LET w == b[1] + 256 * b[2] + 65536 * b[3] + 16777216 * (b[4] % 128)
    IN  IF b[4] >= 128 THEN (w - 2147483647) - 1 ELSE w

\* uint64_t as four 16-bit limbs, least significant first
U64OfNat(t) == << t % 65536, t \div 65536, 0, 0 >>

U64Bytes(u) ==
    << u[1] % 256, u[1] \div 256, u[2] % 256, u[2] \div 256,
       u[3] % 256, u[3] \div 256, u[4] % 256, u[4] \div 256 >>

U64OfBytes(b) ==
    << b[1] + 256 * b[2], b[3] + 256 * b[4], b[5] + 256 * b[6], b[7] + 256 * b[8] >>

\* float: sign(1) exponent(8) fraction(23)
F32Bytes(f) ==
    << f.m % 256, (f.m \div 256) % 256,
       (f.m \div 65536) + 128 * (f.e % 2), (f.e \div 2) + 128 * f.s >>

F32OfBytes(b) ==
    [s |-> b[4] \div 128,
     e |-> 2 * (b[4] % 128) + (b[3] \div 128),
     m |-> b[1] + 256 * b[2] + 65536 * (b[3] % 128)]

RECURSIVE FloatArrayBytes(_)
FloatArrayBytes(a) ==
    IF a = <<>> THEN <<>> ELSE F32Bytes(Head(a)) \o FloatArrayBytes(Tail(a))

FloatArrayOfBytes(b, n) ==
    [i \in 1..n |-> F32OfBytes(SubSeq(b, 4 * (i - 1) + 1, 4 * i))]

-----------------------------------------------------------------------------
(* The AutomationData struct and its layout.                               *)

AlignUp(n, a) == ((n + a - 1) \div a) * a

OffsetofMessageKey == 0
OffsetofSequenceNumber == OffsetofMessageKey + SizeofInt32
OffsetofSysTimestamp == AlignUp(OffsetofSequenceNumber + SizeofInt32, SizeofUint64)
OffsetofNormalizedData == OffsetofSysTimestamp + SizeofUint64
OffsetofUnnormalizedData(n) == OffsetofNormalizedData + n * SizeofFloat
\* sizeof(AutomationData) with arrays of n floats
SizeofAutomationDataFor(n) ==
    AlignUp(OffsetofUnnormalizedData(n) + n * SizeofFloat, SizeofUint64)
SizeofAutomationData == SizeofAutomationDataFor(NORMALIZED_DATA_SIZE)

-----------------------------------------------------------------------------
(* automation_data_new                                                     *)

NormalizedOf(r) == FDiv(FloatOfInt(r), FloatOfInt(RAND_MAX))
UnnormalizedOf(r) == FSub(FMul(FDiv(FloatOfInt(r), FloatOfInt(RAND_MAX)), F_2000), F_1000)

\* The record the call builds; rn, ru are what rand() returns in the two loops.
NewRecord(message_key, sequence_number, tv_sec, rn, ru) ==
    [message_key |-> message_key,
     sequence_number |-> sequence_number,
     sys_timestamp |-> U64OfNat(tv_sec),
     normalized_data |-> [i \in 1..NORMALIZED_DATA_SIZE |-> NormalizedOf(rn[i])],
     unnormalized_data |-> [i \in 1..UNNORMALIZED_DATA_SIZE |-> UnnormalizedOf(ru[i])]]

\* as SeedStep, without the test of seeded
SeedStep_Always(sd) == [seeded |-> 1, srand_calls |-> sd.srand_calls + 1]

\* static int seeded: srand is called when it is 0
SeedStep(sd) ==
    IF sd.seeded = 0 THEN [seeded |-> 1, srand_calls |-> sd.srand_calls + 1] ELSE sd

-----------------------------------------------------------------------------
(* automation_data_serialize                                               *)

\* as SerializedSizeFor, with a 4-byte length prefix counted in
SerializedSizeFor_Prefixed(n) ==
    SizeofInt32 + SizeofInt32 + SizeofInt32 + SizeofUint64 + (n * SizeofFloat)
        + (n * SizeofFloat)

\* *size
SerializedSizeFor(n) ==
    SizeofInt32 + SizeofInt32 + SizeofUint64 + (n * SizeofFloat) + (n * SizeofFloat)
SerializedSize == SerializedSizeFor(NORMALIZED_DATA_SIZE)

Memcpy(buf, off, bytes) ==
    [i \in 1..Len(buf) |->
        IF off < i /\ i <= off + Len(bytes) THEN bytes[i - off] ELSE buf[i]]

\* as SerializeWrites, with sequence_number packed before message_key
SerializeWrites_Swapped(d) ==
    LET p0 == 0
        p1 == p0 + SizeofInt32
        p2 == p1 + SizeofInt32
        p3 == p2 + SizeofUint64
        p4 == p3 + NORMALIZED_DATA_SIZE * SizeofFloat
    IN  << [field |-> "sequence_number", off |-> p0, bytes |-> I32Bytes(d.sequence_number)],
           [field |-> "message_key", off |-> p1, bytes |-> I32Bytes(d.message_key)],
           [field |-> "sys_timestamp", off |-> p2, bytes |-> U64Bytes(d.sys_timestamp)],
           [field |-> "normalized_data", off |-> p3,
            bytes |-> FloatArrayBytes(d.normalized_data)],
           [field |-> "unnormalized_data", off |-> p4,
            bytes |-> FloatArrayBytes(d.unnormalized_data)] >>

\* The memcpy calls of the function in order: the field, the value of ptr - *buffer
\* at the call, and the bytes copied.
SerializeWrites(d) ==
    LET p0 == 0
        p1 == p0 + SizeofInt32
        p2 == p1 + SizeofInt32
        p3 == p2 + SizeofUint64
        p4 == p3 + NORMALIZED_DATA_SIZE * SizeofFloat
    IN  << [field |-> "message_key", off |-> p0, bytes |-> I32Bytes(d.message_key)],
           [field |-> "sequence_number", off |-> p1, bytes |-> I32Bytes(d.sequence_number)],
           [field |-> "sys_timestamp", off |-> p2, bytes |-> U64Bytes(d.sys_timestamp)],
           [field |-> "normalized_data", off |-> p3,
            bytes |-> FloatArrayBytes(d.normalized_data)],
           [field |-> "unnormalized_data", off |-> p4,
            bytes |-> FloatArrayBytes(d.unnormalized_data)] >>

RECURSIVE ApplyWrites(_, _)
ApplyWrites(buf, ws) ==
    IF ws = <<>> THEN buf
    ELSE ApplyWrites(Memcpy(buf, Head(ws).off, Head(ws).bytes), Tail(ws))

\* The buffer after the call; garbage is what malloc's memory held.
SerializeImage(d, garbage) ==
    ApplyWrites([i \in 1..SerializedSize |-> garbage], SerializeWrites(d))

Layout(ops) == [k \in DOMAIN ops |->
                  [field |-> ops[k].field, off |-> ops[k].off, len |-> Len(ops[k].bytes)]]

-----------------------------------------------------------------------------
(* automation_data_deserialize                                             *)

\* as DeserializeAccepts, checking the size against the scalar header only
DeserializeAccepts_HeaderOnly(size) == ~(size < OffsetofNormalizedData)

\* the guard of line 107 (the buffer is not NULL)
DeserializeAccepts(size) == ~(size < SizeofAutomationData)

\* memcpy(dst, buffer + off, len); a byte past the buffer's end is indeterminate
ReadBytes(buf, off, len, garbage) ==
    [i \in 1..len |-> IF off + i <= Len(buf) THEN buf[off + i] ELSE garbage]

\* as DeserializeReads, with ptr not advanced past normalized_data
DeserializeReads_NoAdvance(buf, garbage) ==
    LET p0 == 0
        p1 == p0 + SizeofInt32
        p2 == p1 + SizeofInt32
        p3 == p2 + SizeofUint64
        p4 == p3
    IN  << [field |-> "message_key", off |-> p0,
            bytes |-> ReadBytes(buf, p0, SizeofInt32, garbage)],
           [field |-> "sequence_number", off |-> p1,
            bytes |-> ReadBytes(buf, p1, SizeofInt32, garbage)],
           [field |-> "sys_timestamp", off |-> p2,
            bytes |-> ReadBytes(buf, p2, SizeofUint64, garbage)],
           [field |-> "normalized_data", off |-> p3,
            bytes |-> ReadBytes(buf, p3, NORMALIZED_DATA_SIZE * SizeofFloat, garbage)],
           [field |-> "unnormalized_data", off |-> p4,
            bytes |-> ReadBytes(buf, p4, UNNORMALIZED_DATA_SIZE * SizeofFloat, garbage)] >>

\* The memcpy calls of the function in order, with ptr - buffer at each call.
DeserializeReads(buf, garbage) ==
    LET p0 == 0
        p1 == p0 + SizeofInt32
        p2 == p1 + SizeofInt32
        p3 == p2 + SizeofUint64
        p4 == p3 + NORMALIZED_DATA_SIZE * SizeofFloat
    IN  << [field |-> "message_key", off |-> p0,
            bytes |-> ReadBytes(buf, p0, SizeofInt32, garbage)],
           [field |-> "sequence_number", off |-> p1,
            bytes |-> ReadBytes(buf, p1, SizeofInt32, garbage)],
           [field |-> "sys_timestamp", off |-> p2,
            bytes |-> ReadBytes(buf, p2, SizeofUint64, garbage)],
           [field |-> "normalized_data", off |-> p3,
            bytes |-> ReadBytes(buf, p3, NORMALIZED_DATA_SIZE * SizeofFloat, garbage)],
           [field |-> "unnormalized_data", off |-> p4,
            bytes |-> ReadBytes(buf, p4, UNNORMALIZED_DATA_SIZE * SizeofFloat, garbage)] >>

DeserializeRecord(rs) ==
    [message_key |-> I32OfBytes(rs[1].bytes),
     sequence_number |-> I32OfBytes(rs[2].bytes),
     sys_timestamp |-> U64OfBytes(rs[3].bytes),
     normalized_data |-> FloatArrayOfBytes(rs[4].bytes, NORMALIZED_DATA_SIZE),
     unnormalized_data |-> FloatArrayOfBytes(rs[5].bytes, UNNORMALIZED_DATA_SIZE)]

\* the byte offsets the reads touch
ReadOffsets(layout) ==
    UNION {layout[k].off .. (layout[k].off + layout[k].len - 1) : k \in DOMAIN layout}

-----------------------------------------------------------------------------
(* Inputs of the codec run.                                                *)

INT32_MIN == (-2147483647) - 1
INT32_MAX == 2147483647

Keys == {MESSAGE_KEY}
Seqs == {0, INT32_MIN, INT32_MAX}
Times == {0, 1700000000}
\* what rand() returns: 0 .. RAND_MAX inclusive
RandVals == {0, 1234567890, 2147483583, RAND_MAX}
GarbageBytes == {0, 255}
\* the size argument of automation_data_deserialize
DesSizes == {0, OffsetofNormalizedData, SerializedSize - 1, SerializedSize,
             SerializedSize + 1}

NoSer == [called |-> FALSE, ret |-> 0, buffer |-> NULL, size |-> 0, writes |-> <<>>]
NoDes == [called |-> FALSE, buffer |-> NULL, size |-> 0, result |-> NULL,
          nomem |-> FALSE, reads |-> <<>>]

\* What a call of automation_data_serialize(d, &buffer, &size) leaves.
SerializeCall(d, malloc_ok, garbage) ==
    IF d = NULL
    THEN [called |-> TRUE, ret |-> -1, buffer |-> NULL, size |-> 0, writes |-> <<>>]
    ELSE IF ~malloc_ok
    THEN [called |-> TRUE, ret |-> -1, buffer |-> NULL, size |-> SerializedSize,
          writes |-> <<>>]
    ELSE [called |-> TRUE, ret |-> 0,
          buffer |-> Ptr(SerializeImage(Deref(d), garbage)),
          size |-> SerializedSize,
          writes |-> Layout(SerializeWrites(Deref(d)))]

\* What a call of automation_data_deserialize(buffer, size) returns and reads.
DeserializeCall(buffer, size, malloc_ok, garbage) ==
    IF buffer = NULL \/ ~DeserializeAccepts(size)
    THEN [called |-> TRUE, buffer |-> buffer, size |-> size, result |-> NULL,
          nomem |-> FALSE, reads |-> <<>>]
    ELSE IF ~malloc_ok
    THEN [called |-> TRUE, buffer |-> buffer, size |-> size, result |-> NULL,
          nomem |-> TRUE, reads |-> <<>>]
    ELSE LET rs == DeserializeReads(Deref(buffer), garbage)
         IN  [called |-> TRUE, buffer |-> buffer, size |-> size,
              result |-> Ptr(DeserializeRecord(rs)), nomem |-> FALSE,
              reads |-> Layout(rs)]

\* A caller's buffer of exactly size bytes: the serialized bytes cut or padded.
InputBuffer(bytes, size) ==
    [i \in 1..size |-> IF i <= Len(bytes) THEN bytes[i] ELSE 0]

-----------------------------------------------------------------------------
(* The codec run: create, serialize, deserialize, free (as run_tests does). *)

automation_data_new ==
    /\ data = NULL
    /\ \E message_key \in Keys, sequence_number \in Seqs, malloc_ok \in BOOLEAN :
          IF ~malloc_ok
          THEN UNCHANGED <<data, seeded>>
          ELSE \E tv_sec \in Times,
                  rn \in [1..NORMALIZED_DATA_SIZE -> RandVals],
                  ru \in [1..UNNORMALIZED_DATA_SIZE -> RandVals] :
                  /\ data' = Ptr(NewRecord(message_key, sequence_number, tv_sec, rn, ru))
                  /\ seeded' = SeedStep(seeded)
    /\ UNCHANGED <<ser, des>>
    /\ UNCHANGED <<producerVars, demo>>

automation_data_serialize ==
    /\ data # NULL
    /\ ~ser.called
    /\ \E d \in {NULL, data}, malloc_ok \in BOOLEAN, garbage \in GarbageBytes :
          ser' = SerializeCall(d, malloc_ok, garbage)
    /\ UNCHANGED <<data, des, seeded>>
    /\ UNCHANGED <<producerVars, demo>>

automation_data_deserialize ==
    /\ ser.called /\ ser.ret = 0
    /\ ~des.called
    /\ \E size \in DesSizes, null_arg \in BOOLEAN, malloc_ok \in BOOLEAN,
          garbage \in GarbageBytes :
          des' = DeserializeCall(
                    IF null_arg THEN NULL
                    ELSE Ptr(InputBuffer(Deref(ser.buffer), size)),
                    size, malloc_ok, garbage)
    /\ UNCHANGED <<data, ser, seeded>>
    /\ UNCHANGED <<producerVars, demo>>

\* free(buffer); automation_data_free(data); automation_data_free(deserialized)
automation_data_free ==
    /\ data # NULL
    /\ data' = NULL
    /\ ser' = NoSer
    /\ des' = NoDes
    /\ UNCHANGED seeded
    /\ UNCHANGED <<producerVars, demo>>

-----------------------------------------------------------------------------
(* snprintf(key, sizeof(key), "%d", data->sequence_number)                 *)

DigitChars == <<"0", "1", "2", "3", "4", "5", "6", "7", "8", "9">>

RECURSIVE DigitsOfNat(_)
DigitsOfNat(n) ==
    IF n < 10 THEN <<DigitChars[n + 1]>>
    ELSE DigitsOfNat(n \div 10) \o <<DigitChars[(n % 10) + 1]>>

\* what printf's %d produces for an int
FormatInt(v) ==
    IF v >= 0 THEN DigitsOfNat(v)
    ELSE LET d == (10 - (v % 10)) % 10          \* the last digit of |v|
             rest == (-(v + d)) \div 10         \* |v| without it
         IN  <<"-">> \o (IF rest = 0 THEN <<>> ELSE DigitsOfNat(rest))
                     \o <<DigitChars[d + 1]>>

\* the string snprintf leaves in a buffer of bufsize chars: at most bufsize - 1
Snprintf(bufsize, chars) == SubSeq(chars, 1, Min(Len(chars), bufsize - 1))

KEY_BUFFER_SIZE == 32

\* as MessageKeyOf, with an 8-char key buffer
MessageKeyOf_ShortBuffer(sequence_number) == Snprintf(8, FormatInt(sequence_number))

\* key, of which strlen(key) chars are handed to the client
MessageKeyOf(sequence_number) == Snprintf(KEY_BUFFER_SIZE, FormatInt(sequence_number))

-----------------------------------------------------------------------------
(* The librdkafka client as kafka_producer.c uses it.                      *)

Settings == {"bootstrap.servers", "message.max.bytes", "compression.type",
             "batch.size", "linger.ms"}

MESSAGE_MAX_BYTES == 10485760
\* the client's message.max.bytes when the setting was not applied
DEFAULT_MESSAGE_MAX_BYTES == 1000000

RD_KAFKA_MSG_F_COPY == 2
RD_KAFKA_RESP_ERR_NO_ERROR == 0
RD_KAFKA_RESP_ERR__TIMED_OUT == -185
RD_KAFKA_RESP_ERR__QUEUE_FULL == -184
RD_KAFKA_RESP_ERR__MSG_TIMED_OUT == -192
RD_KAFKA_RESP_ERR_MSG_SIZE_TOO_LARGE == 10

IsLive(p) == p # NULL /\ Deref(p).live

\* as MessageMaxBytes, with the setting of line 43 left out
MessageMaxBytes_Default(p) == DEFAULT_MESSAGE_MAX_BYTES

\* the client's ceiling on the size of a message: message.max.bytes
MessageMaxBytes(p) ==
    IF "message.max.bytes" \in Deref(p).conf THEN MESSAGE_MAX_BYTES
    ELSE DEFAULT_MESSAGE_MAX_BYTES

\* The bytes of the program's message that a model buffer of size bytes stands for.
ProgramBytes(size) == (size \div SerializedSize) * SerializedSizeFor(REAL_DATA_SIZE)

\* rd_kafka_outq_len: messages waiting, in flight, or with an unserved report
OutqLen == Len(outq) + Len(drq)

\* rd_kafka_producev's return value for a message of size bytes
ProducevResult(p, size) ==
    IF ProgramBytes(size) > MessageMaxBytes(p) THEN RD_KAFKA_RESP_ERR_MSG_SIZE_TOO_LARGE
    ELSE IF OutqLen >= MaxQueue THEN RD_KAFKA_RESP_ERR__QUEUE_FULL
    ELSE RD_KAFKA_RESP_ERR_NO_ERROR

\* delivery_report_callback(rk, rkmessage, opaque): one line printed
delivery_report_callback(log, rkmessage) ==
    Append(log,
        IF rkmessage.err # 0
        THEN [id |-> rkmessage.id, line |-> "delivery failed", err |-> rkmessage.err,
              partition |-> rkmessage.partition, offset |-> rkmessage.offset]
        ELSE [id |-> rkmessage.id, line |-> "delivered", err |-> 0,
              partition |-> rkmessage.partition, offset |-> rkmessage.offset])

\* as ServeReports, with every report left on the queue for one more poll
RECURSIVE ServeReports_Twice(_, _)
ServeReports_Twice(log, reports) ==
    IF reports = <<>> THEN log
    ELSE ServeReports_Twice(
            delivery_report_callback(delivery_report_callback(log, Head(reports)),
                                     Head(reports)),
            Tail(reports))

\* rd_kafka_poll: the callback runs for every report held, oldest first
RECURSIVE ServeReports(_, _)
ServeReports(log, reports) ==
    IF reports = <<>> THEN log
    ELSE ServeReports(delivery_report_callback(log, Head(reports)), Tail(reports))

Delivered == {callbacks[i].id : i \in DOMAIN callbacks}
\* the next offset of the partition: the records the broker has appended
LogEnd == Cardinality({i \in DOMAIN callbacks : callbacks[i].err = 0})
            + Cardinality({i \in DOMAIN drq : drq[i].err = 0})

-----------------------------------------------------------------------------
(* kafka_producer.c                                                        *)

\* the record of an API call: returned is FALSE while it is in progress, and
\* then data, topic_name and timeout_ms are its arguments; attempts counts its
\* calls of rd_kafka_producev and frees its calls of free(buffer); released says that the call went through to the
\* client handle of a producer that kafka_producer_free had released
NoCall == [op |-> "none", returned |-> TRUE, ret |-> 0, attempts |-> 0,
           producer_null |-> FALSE, data |-> NULL, topic_name |-> NULL,
           timeout_ms |-> 0, released |-> FALSE, frees |-> 0]

Return(op, ret, attempts, producer_null) ==
    [op |-> op, returned |-> TRUE, ret |-> ret, attempts |-> attempts,
     producer_null |-> producer_null, data |-> NULL, topic_name |-> NULL,
     timeout_ms |-> 0, released |-> FALSE, frees |-> 0]

InProgress(op, attempts, d, topic_name, timeout_ms) ==
    [op |-> op, returned |-> FALSE, ret |-> 0, attempts |-> attempts,
     producer_null |-> FALSE, data |-> d, topic_name |-> topic_name,
     timeout_ms |-> timeout_ms, released |-> FALSE, frees |-> 0]

\* What kafka_producer_create returns and leaves allocated; rejected are the
\* settings rd_kafka_conf_set does not accept.
CreateResult(malloc_ok, conf_new_ok, rejected, new_ok) ==
    IF ~malloc_ok THEN [ret |-> NULL, heap |-> {}]
    ELSE IF ~conf_new_ok THEN [ret |-> NULL, heap |-> {}]
    ELSE IF "bootstrap.servers" \in rejected THEN [ret |-> NULL, heap |-> {}]
    ELSE IF ~new_ok THEN [ret |-> NULL, heap |-> {"rd_kafka_conf_t"}]
    ELSE [ret |-> Ptr([live |-> TRUE, conf |-> Settings \ rejected,
                       dr_msg_cb |-> TRUE, topic |-> NULL]),
          heap |-> {"KafkaProducer", "rd_kafka_t"}]

\* the settings the client rejects in a run of the producer
RejectChoices == {{}, {"bootstrap.servers"}, {"message.max.bytes"}}

\* lines 19-62, for whatever the allocator and the client answer
ProducerCreate ==
    /\ producer = NULL
    /\ pc = "idle"
    /\ \E malloc_ok \in BOOLEAN, conf_new_ok \in BOOLEAN, rejected \in RejectChoices,
          new_ok \in BOOLEAN :
          LET r == CreateResult(malloc_ok, conf_new_ok, rejected, new_ok)
          IN  /\ producer' = r.ret
              /\ heap' = heap \cup r.heap
    /\ UNCHANGED <<outq, drq, callbacks, accepted, broker, pc, call, remaining>>

kafka_producer_create ==
    /\ ProducerCreate
    /\ UNCHANGED <<codecVars, demo>>

\* the records and topics the caller publishes
SendArgs ==
    { [data |-> NewRecord(MESSAGE_KEY, 7, 1700000000,
                          [i \in 1..NumSamples |-> 1234567890],
                          [i \in 1..NumSamples |-> 0]),
       topic_name |-> "automation-data"],
      [data |-> NewRecord(MESSAGE_KEY, INT32_MIN, 1700000000,
                          [i \in 1..NumSamples |-> 0],
                          [i \in 1..NumSamples |-> 1234567890]),
       topic_name |-> "other-topic"],
      [data |-> NewRecord(MESSAGE_KEY, INT32_MAX, 0,
                          [i \in 1..NumSamples |-> 2147483583],
                          [i \in 1..NumSamples |-> 2147483583]),
       topic_name |-> "automation-data"] }

\* the message rd_kafka_producev is handed (RD_KAFKA_MSG_F_COPY: the client's copy)
Message(id, topic_name, key, buffer, size) ==
    [id |-> id, topic |-> topic_name, key |-> key,
     value |-> SubSeq(buffer, 1, size), headers |-> <<>>,
     msgflags |-> RD_KAFKA_MSG_F_COPY]

\* as EnqueueFailed, with a poll and a second rd_kafka_producev before giving up
EnqueueFailed_Retry ==
    /\ callbacks' = ServeReports(callbacks, drq)
    /\ drq' = <<>>
    /\ call' = [Return("send", -1, 2, FALSE) EXCEPT !.frees = 1]
    /\ UNCHANGED <<outq, accepted, pc>>

\* as EnqueueFailed, returning without free(buffer)
EnqueueFailed_Leak ==
    /\ call' = Return("send", -1, 1, FALSE)
    /\ UNCHANGED <<outq, drq, callbacks, accepted, pc>>

\* lines 104-108: rd_kafka_producev returned an error
EnqueueFailed ==
    /\ call' = [Return("send", -1, 1, FALSE) EXCEPT !.frees = 1]
    /\ UNCHANGED <<outq, drq, callbacks, accepted, pc>>

\* lines 72-108: up to rd_kafka_producev and the failure returns, for a call with
\* one of the arguments args, of which null_arg is passed as NULL
ProducerSend(args, null_args) ==
    /\ pc = "idle"
    /\ \E arg \in args, null_arg \in null_args,
          malloc_ok \in BOOLEAN, garbage \in GarbageBytes :
          LET p == IF null_arg = "producer" THEN NULL ELSE producer
              d == IF null_arg = "data" THEN NULL ELSE Ptr(arg.data)
              topic_name == IF null_arg = "topic_name" THEN NULL ELSE Ptr(arg.topic_name)
              s == SerializeCall(d, malloc_ok, garbage)
              key == MessageKeyOf(Deref(d).sequence_number)
              result == ProducevResult(p, s.size)
          IN  /\ p # NULL => IsLive(p)
              /\ IF p = NULL \/ d = NULL \/ topic_name = NULL
                 THEN /\ call' = Return("send", -1, 0, p = NULL)
                      /\ UNCHANGED <<outq, drq, callbacks, accepted, pc>>
                 ELSE IF s.ret # 0
                 THEN /\ call' = Return("send", -1, 0, FALSE)
                      /\ UNCHANGED <<outq, drq, callbacks, accepted, pc>>
                 ELSE IF result # 0
                 THEN EnqueueFailed
                 ELSE /\ UNCHANGED <<drq, callbacks>>
                      /\ outq' = Append(outq,
                            Message(accepted + 1, Deref(topic_name), key,
                                    Deref(s.buffer), s.size))
                      /\ accepted' = accepted + 1
                      /\ pc' = "send_poll"
                      /\ call' = InProgress("send", 1, d, topic_name, 0)
    /\ UNCHANGED <<producer, heap, broker, remaining>>

kafka_send_automation_data ==
    /\ accepted < MaxSends
    /\ ProducerSend(SendArgs, {"none", "producer", "data", "topic_name"})
    /\ UNCHANGED <<codecVars, demo>>

\* as kafka_send_poll, returning only once the record's delivery report is in
kafka_send_poll_Blocking ==
    /\ pc = "send_poll"
    /\ \A i \in DOMAIN outq : outq[i].id # accepted
    /\ callbacks' = ServeReports(callbacks, drq)
    /\ drq' = <<>>
    /\ pc' = "idle"
    /\ call' = [Return("send", 0, call.attempts, FALSE) EXCEPT !.frees = call.frees + 1]
    /\ UNCHANGED <<producer, heap, outq, accepted, broker, remaining>>
    /\ UNCHANGED <<codecVars, demo>>

\* as kafka_send_poll, with a callback that publishes again the record whose
\* delivery failed
kafka_send_poll_Reentrant ==
    /\ pc = "send_poll"
    /\ callbacks' = ServeReports(callbacks, drq)
    /\ drq' = <<>>
    /\ outq' = outq \o [i \in 1..Len(SelectSeq(drq, LAMBDA r : r.err # 0)) |->
                          LET r == SelectSeq(drq, LAMBDA x : x.err # 0)[i]
                          IN  [id |-> r.id, topic |-> r.topic, key |-> r.key,
                               value |-> r.value, headers |-> <<>>,
                               msgflags |-> RD_KAFKA_MSG_F_COPY]]
    /\ pc' = "idle"
    /\ call' = [Return("send", 0, call.attempts, FALSE) EXCEPT !.frees = call.frees + 1]
    /\ UNCHANGED <<producer, heap, accepted, broker, remaining>>
    /\ UNCHANGED <<codecVars, demo>>

\* lines 110-116: rd_kafka_poll(producer->producer, 0), free(buffer), return 0
kafka_send_poll ==
    /\ pc = "send_poll"
    /\ callbacks' = ServeReports(callbacks, drq)
    /\ drq' = <<>>
    /\ pc' = "idle"
    /\ call' = [Return("send", 0, call.attempts, FALSE) EXCEPT !.frees = call.frees + 1]
    /\ UNCHANGED <<producer, heap, outq, accepted, broker, remaining>>
    /\ UNCHANGED <<codecVars, demo>>

\* timeout_ms: -1 waits without limit
FlushTimeouts == {-1, 0, MaxTimeout}

\* as FlushTimeoutPassed, waiting without limit
FlushTimeoutPassed_NoLimit(timeout_ms) == -1

\* what kafka_producer_flush passes to rd_kafka_flush as its timeout
FlushTimeoutPassed(timeout_ms) == timeout_ms

\* lines 119-124: the NULL check, and rd_kafka_flush entered with its first poll
ProducerFlush(null_args, timeouts) ==
    /\ pc = "idle"
    /\ \E null_arg \in null_args, timeout_ms \in timeouts :
          IF null_arg
          THEN /\ call' = Return("flush", -1, 0, TRUE)
               /\ UNCHANGED <<drq, callbacks, pc, remaining>>
          ELSE /\ IsLive(producer)
               /\ callbacks' = ServeReports(callbacks, drq)
               /\ drq' = <<>>
               /\ pc' = "flushing"
               /\ remaining' = FlushTimeoutPassed(timeout_ms)
               /\ call' = InProgress("flush", 0, NULL, NULL, timeout_ms)
    /\ UNCHANGED <<producer, heap, outq, accepted, broker>>

kafka_producer_flush ==
    /\ ProducerFlush(BOOLEAN, FlushTimeouts)
    /\ UNCHANGED <<codecVars, demo>>

\* as rd_kafka_flush_poll, with the records that failed put back on the queue
rd_kafka_flush_poll_Retry ==
    /\ pc = "flushing"
    /\ remaining # 0
    /\ drq # <<>>
    /\ callbacks' = ServeReports(callbacks, drq)
    /\ drq' = <<>>
    /\ outq' = outq \o [i \in 1..Len(SelectSeq(drq, LAMBDA r : r.err # 0)) |->
                          LET r == SelectSeq(drq, LAMBDA x : x.err # 0)[i]
                          IN  [id |-> r.id, topic |-> r.topic, key |-> r.key,
                               value |-> r.value, headers |-> <<>>,
                               msgflags |-> RD_KAFKA_MSG_F_COPY]]
    /\ UNCHANGED <<producer, heap, accepted, broker, pc, call, remaining>>
    /\ UNCHANGED <<codecVars, demo>>

\* rd_kafka_flush: a poll of its loop serves the reports that came in
rd_kafka_flush_poll ==
    /\ pc = "flushing"
    /\ remaining # 0
    /\ drq # <<>>
    /\ callbacks' = ServeReports(callbacks, drq)
    /\ drq' = <<>>
    /\ UNCHANGED <<producer, heap, outq, accepted, broker, pc, call, remaining>>
    /\ UNCHANGED <<codecVars, demo>>

\* rd_kafka_flush: time passes while messages are outstanding
rd_kafka_flush_wait ==
    /\ pc = "flushing"
    /\ remaining > 0
    /\ OutqLen > 0
    /\ remaining' = remaining - 1
    /\ UNCHANGED <<producer, heap, outq, drq, callbacks, accepted, broker, pc, call>>
    /\ UNCHANGED <<codecVars, demo>>

\* as FlushResult, with rd_kafka_flush's result dropped
FlushResult_AlwaysZero(outstanding) == RD_KAFKA_RESP_ERR_NO_ERROR

\* the value rd_kafka_flush returns, which kafka_producer_flush returns
FlushResult(outstanding) ==
    IF outstanding > 0 THEN RD_KAFKA_RESP_ERR__TIMED_OUT ELSE RD_KAFKA_RESP_ERR_NO_ERROR

\* as rd_kafka_flush_return, with a timeout treated as fatal for the producer
rd_kafka_flush_return_Fatal ==
    /\ pc = "flushing"
    /\ OutqLen = 0 \/ remaining = 0
    /\ call' = Return("flush", FlushResult(OutqLen), 0, FALSE)
    /\ pc' = "idle"
    /\ remaining' = 0
    /\ producer' = IF OutqLen > 0 THEN Ptr([Deref(producer) EXCEPT !.live = FALSE])
                   ELSE producer
    /\ UNCHANGED <<heap, outq, drq, callbacks, accepted, broker>>
    /\ UNCHANGED <<codecVars, demo>>

\* rd_kafka_flush returns: nothing is outstanding, or the timeout has elapsed
rd_kafka_flush_return ==
    /\ pc = "flushing"
    /\ OutqLen = 0 \/ remaining = 0
    /\ call' = Return("flush", FlushResult(OutqLen), 0, FALSE)
    /\ pc' = "idle"
    /\ remaining' = 0
    /\ UNCHANGED <<producer, heap, outq, drq, callbacks, accepted, broker>>
    /\ UNCHANGED <<codecVars, demo>>

\* lines 127-137: rd_kafka_destroy releases the client and what it still holds
ProducerFree ==
    /\ pc = "idle"
    /\ IsLive(producer)
    /\ producer' = Ptr([Deref(producer) EXCEPT !.live = FALSE])
    /\ heap' = heap \ {"KafkaProducer", "rd_kafka_t"}
    /\ outq' = <<>>
    /\ drq' = <<>>
    /\ UNCHANGED <<callbacks, accepted, broker, pc, call, remaining>>

kafka_producer_free ==
    /\ ProducerFree
    /\ UNCHANGED <<codecVars, demo>>

\* what a call that reads a freed KafkaProducer can do: the behaviour is undefined
UndefinedOutcomes == {"crash", "returns -1", "returns 0"}

\* kafka_send_automation_data, kafka_producer_flush or kafka_producer_free called
\* with a producer that kafka_producer_free has already freed: the only test is
\* for NULL (lines 73, 120, 128), so the call reads producer->producer from the
\* freed object and hands it to the client.
call_after_free ==
    /\ pc = "idle"
    /\ producer # NULL /\ ~Deref(producer).live
    /\ \E op \in {"send", "flush", "free"}, outcome \in UndefinedOutcomes :
          /\ pc' = IF outcome = "crash" THEN "crashed" ELSE "idle"
          /\ call' = [op |-> op, returned |-> outcome # "crash",
                      ret |-> IF outcome = "returns -1" THEN -1 ELSE 0,
                      attempts |-> IF op = "send" THEN 1 ELSE 0,
                      producer_null |-> FALSE, data |-> NULL, topic_name |-> NULL,
                      timeout_ms |-> 0, released |-> TRUE, frees |-> 0]
    /\ UNCHANGED <<producer, heap, outq, drq, callbacks, accepted, broker, remaining>>
    /\ UNCHANGED <<codecVars, demo>>

-----------------------------------------------------------------------------
(* The client's background thread and the broker.                          *)

DeliveryReport(msg, err) ==
    [id |-> msg.id, topic |-> msg.topic, key |-> msg.key, value |-> msg.value,
     err |-> err, partition |-> 0, offset |-> IF err = 0 THEN LogEnd ELSE -1]

\* the broker acknowledges the oldest message
broker_ack ==
    /\ IsLive(producer)
    /\ broker = "reachable"
    /\ outq # <<>>
    /\ drq' = Append(drq, DeliveryReport(Head(outq), RD_KAFKA_RESP_ERR_NO_ERROR))
    /\ outq' = Tail(outq)
    /\ UNCHANGED <<producer, heap, callbacks, accepted, broker, pc, call, remaining>>
    /\ UNCHANGED <<codecVars, demo>>

\* the oldest message times out in the client (message.timeout.ms)
message_timeout ==
    /\ IsLive(producer)
    /\ outq # <<>>
    /\ drq' = Append(drq, DeliveryReport(Head(outq), RD_KAFKA_RESP_ERR__MSG_TIMED_OUT))
    /\ outq' = Tail(outq)
    /\ UNCHANGED <<producer, heap, callbacks, accepted, broker, pc, call, remaining>>
    /\ UNCHANGED <<codecVars, demo>>

network_change ==
    /\ IsLive(producer)
    /\ broker' = IF broker = "reachable" THEN "unreachable" ELSE "reachable"
    /\ UNCHANGED <<producer, heap, outq, drq, callbacks, accepted, pc, call, remaining>>
    /\ UNCHANGED <<codecVars, demo>>

-----------------------------------------------------------------------------

CodecInit ==
    /\ data = NULL
    /\ ser = NoSer
    /\ des = NoDes
    /\ seeded = [seeded |-> 0, srand_calls |-> 0]

ProducerInit ==
    /\ producer = NULL
    /\ heap = {}
    /\ outq = <<>>
    /\ drq = <<>>
    /\ callbacks = <<>>
    /\ accepted = 0
    /\ broker \in {"reachable", "unreachable"}
    /\ pc = "idle"
    /\ call = NoCall
    /\ remaining = 0

\* run_kafka_demo has not been entered
\* what main.c has allocated and freed, by kind of object
NoMem == [k \in {"data", "buffer", "deserialized", "producer"} |->
            [allocs |-> 0, frees |-> 0]]
Alloc(m, k) == [m EXCEPT ![k].allocs = @ + 1]
Free(m, k) == [m EXCEPT ![k].frees = @ + 1]
Live(m, k) == m[k].allocs - m[k].frees

\* the state of main.c before run_tests or run_kafka_demo is entered at pc;
\* generated lists the records made so far, stale says that an object was used
\* after it was freed
Main(pc0) == [pc |-> pc0, i |-> 0, total_raw_size |-> 0, ret |-> 0, log |-> <<>>,
              generated |-> <<>>, mem |-> NoMem, stale |-> FALSE]

NoDemo == Main("none")

Init == CodecInit /\ ProducerInit /\ demo = NoDemo

CodecNext ==
    \/ automation_data_new
    \/ automation_data_serialize
    \/ automation_data_deserialize
    \/ automation_data_free

SpecCodec == Init /\ [][CodecNext]_vars

Next ==
    \/ kafka_producer_create
    \/ kafka_send_automation_data
    \/ kafka_send_poll
    \/ kafka_producer_flush
    \/ rd_kafka_flush_poll
    \/ rd_kafka_flush_wait
    \/ rd_kafka_flush_return
    \/ kafka_producer_free
    \/ call_after_free
    \/ broker_ack
    \/ message_timeout
    \/ network_change

Spec == Init /\ [][Next]_vars

\* The foreground thread is scheduled and the clock advances: a flush in progress
\* keeps polling, its timeout runs down, and it returns once it may.
FairSpec ==
    /\ Spec
    /\ WF_vars(rd_kafka_flush_wait)
    /\ WF_vars(rd_kafka_flush_return)

-----------------------------------------------------------------------------
(* main.c: run_kafka_demo                                                 *)

NumMessages == 2

REAL_NUM_MESSAGES == 10
NUM_MESSAGES == NumMessages
TOPIC == "automation-data"

\* kafka_producer_flush(producer, 5000): the timeout, in steps of rd_kafka_flush_wait
DemoFlushTimeout == MaxTimeout

\* the position after iteration i - 1, with the loop running straight into close
LoopPc_NoFlush(i) == IF i < NUM_MESSAGES THEN "generate" ELSE "close"

\* as LoopPc, with the loop left when a publish has failed
LoopPc_StopOnFailure(i) ==
    IF i < NUM_MESSAGES /\ ~(call.op = "send" /\ call.ret = -1) THEN "generate"
    ELSE "flush"

\* for (int i = 0; i < NUM_MESSAGES; i++): the position after iteration i - 1
LoopPc(i) == IF i < NUM_MESSAGES THEN "generate" ELSE "flush"

\* as Accumulate, without the test of automation_data_serialize's result
Accumulate_Unchecked(total_raw_size, s) == total_raw_size + s.size

\* lines 140-143: total_raw_size += temp_size, if the serialization returned 0
Accumulate(total_raw_size, s) ==
    IF s.ret = 0 THEN total_raw_size + s.size ELSE total_raw_size

Logged(op) == [demo EXCEPT !.log = Append(demo.log, op)]

\* d, after a step that uses the objects of the kinds in used
Using(d, used) ==
    [d EXCEPT !.stale = d.stale \/ \E k \in used : Live(demo.mem, k) < 1]

\* as DemoSequenceNumber, numbering the records by what has been published
DemoSequenceNumber_Accepted(i) == accepted

\* line 131: the sequence number given to the record of iteration i
DemoSequenceNumber(i) == i

\* lines 119-123: kafka_producer_create(BOOTSTRAP_SERVERS); return -1 if it failed
demo_create ==
    /\ demo.pc = "create"
    /\ ProducerCreate
    /\ demo' = IF producer' = NULL
               THEN [Logged("create") EXCEPT !.pc = "done", !.ret = -1]
               ELSE [Logged("create") EXCEPT !.pc = LoopPc(0),
                                             !.mem = Alloc(demo.mem, "producer")]
    /\ UNCHANGED codecVars

\* lines 131-135: automation_data_new(MESSAGE_KEY, i); continue if it failed
demo_generate ==
    /\ demo.pc = "generate"
    /\ \E malloc_ok \in BOOLEAN :
          IF ~malloc_ok
          THEN /\ demo' = [Logged("generate failed") EXCEPT
                              !.i = demo.i + 1, !.pc = LoopPc(demo.i + 1)]
               /\ UNCHANGED <<data, seeded>>
          ELSE LET r == NewRecord(MESSAGE_KEY, DemoSequenceNumber(demo.i), 1700000000,
                                  [k \in 1..NORMALIZED_DATA_SIZE |-> 1234567890],
                                  [k \in 1..UNNORMALIZED_DATA_SIZE |-> 1234567890])
               IN  /\ data' = Ptr(r)
                   /\ seeded' = SeedStep(seeded)
                   /\ demo' = [Logged("generate") EXCEPT
                                  !.pc = "account",
                                  !.mem = Alloc(demo.mem, "data"),
                                  !.generated = Append(demo.generated,
                                      [message_key |-> r.message_key,
                                       sequence_number |-> r.sequence_number])]
    /\ UNCHANGED <<ser, des>>
    /\ UNCHANGED producerVars

\* lines 138-146: the serialization made for the size, and the summary
demo_account ==
    /\ demo.pc = "account"
    /\ \E malloc_ok \in BOOLEAN :
          LET s == SerializeCall(data, malloc_ok, 0)
          IN  /\ ser' = s
              /\ demo' = [Using(Logged(IF s.ret = 0 THEN "account" ELSE "account failed"),
                                 {"data"})
                            EXCEPT !.total_raw_size = Accumulate(demo.total_raw_size, s),
                                   !.mem = IF s.ret = 0
                                           THEN Free(Alloc(demo.mem, "buffer"), "buffer")
                                           ELSE demo.mem,
                                   !.pc = "publish"]
    /\ UNCHANGED <<data, des, seeded>>
    /\ UNCHANGED producerVars

\* as demo_publish, with a publish that stamps the record with the time of sending
demo_publish_Stamping ==
    /\ demo.pc = "publish"
    /\ ProducerSend({[data |-> Deref(data), topic_name |-> TOPIC]}, {"none"})
    /\ demo' = [Using(Logged("publish"), {"data", "producer"}) EXCEPT !.pc = "free_data"]
    /\ data' = Ptr([Deref(data) EXCEPT !.sys_timestamp = U64OfNat(0)])
    /\ UNCHANGED <<ser, des, seeded>>

\* lines 149-151: kafka_send_automation_data(producer, data, TOPIC)
demo_publish ==
    /\ demo.pc = "publish"
    /\ ProducerSend({[data |-> Deref(data), topic_name |-> TOPIC]}, {"none"})
    /\ demo' = [Using(Logged("publish"), {"data", "producer"}) EXCEPT !.pc = "free_data"]
    /\ UNCHANGED codecVars

\* line 153: automation_data_free(data), once the publish has returned
demo_free_data ==
    /\ demo.pc = "free_data"
    /\ pc = "idle"
    /\ data' = NULL
    /\ ser' = NoSer
    /\ demo' = [demo EXCEPT !.pc = "pace", !.mem = Free(demo.mem, "data")]
    /\ UNCHANGED <<des, seeded>>
    /\ UNCHANGED producerVars

\* line 156: usleep(100000), and i++
demo_pace ==
    /\ demo.pc = "pace"
    /\ demo' = [Logged("pace") EXCEPT !.i = demo.i + 1, !.pc = LoopPc(demo.i + 1)]
    /\ UNCHANGED codecVars
    /\ UNCHANGED producerVars

\* line 161: kafka_producer_flush(producer, 5000), its result not looked at
demo_flush ==
    /\ demo.pc = "flush"
    /\ ProducerFlush({FALSE}, {DemoFlushTimeout})
    /\ demo' = [Using(Logged("flush"), {"producer"}) EXCEPT !.pc = "stats"]
    /\ UNCHANGED codecVars

\* lines 164-178: the statistics, once the flush has returned
demo_stats ==
    /\ demo.pc = "stats"
    /\ pc = "idle"
    /\ demo' = [demo EXCEPT !.pc = "close"]
    /\ UNCHANGED codecVars
    /\ UNCHANGED producerVars

\* lines 181-186: kafka_producer_free(producer); return 0
demo_close ==
    /\ demo.pc = "close"
    /\ ProducerFree
    /\ demo' = [Logged("close") EXCEPT !.pc = "done",
                                        !.mem = Free(demo.mem, "producer")]
    /\ UNCHANGED codecVars

DemoProgram ==
    \/ demo_create
    \/ demo_generate
    \/ demo_account
    \/ demo_publish
    \/ demo_free_data
    \/ demo_pace
    \/ demo_flush
    \/ demo_stats
    \/ demo_close

DemoInit ==
    /\ CodecInit
    /\ ProducerInit
    /\ demo = Main("create")

DemoNext ==
    \/ DemoProgram
    \/ kafka_send_poll
    \/ rd_kafka_flush_poll
    \/ rd_kafka_flush_wait
    \/ rd_kafka_flush_return
    \/ broker_ack
    \/ message_timeout
    \/ network_change

SpecDemo == DemoInit /\ [][DemoNext]_vars

\* The program runs on and the clock advances; the broker may do anything.
FairDemo ==
    /\ SpecDemo
    /\ WF_vars(DemoProgram)
    /\ WF_vars(kafka_send_poll)
    /\ WF_vars(rd_kafka_flush_wait)
    /\ WF_vars(rd_kafka_flush_return)

\* Scenario B: the broker is reachable throughout and acknowledges what it is sent
ScenarioBNext ==
    \/ DemoProgram
    \/ kafka_send_poll
    \/ rd_kafka_flush_poll
    \/ rd_kafka_flush_wait
    \/ rd_kafka_flush_return
    \/ broker_ack

ScenarioBInit ==
    /\ CodecInit
    /\ ProducerInit
    /\ broker = "reachable"
    /\ demo = Main("create")

\* The program runs on, the clock advances, and the broker goes on acknowledging.
ScenarioB ==
    /\ ScenarioBInit
    /\ [][ScenarioBNext]_vars
    /\ WF_vars(DemoProgram)
    /\ WF_vars(kafka_send_poll)
    /\ WF_vars(rd_kafka_flush_wait)
    /\ WF_vars(rd_kafka_flush_return)
    /\ WF_vars(broker_ack)

-----------------------------------------------------------------------------
(* main.c: run_tests, and main's choice between it and run_kafka_demo      *)

\* m, after the objects of the kinds in ks have been freed
FreeKinds(m, ks) ==
    [k \in DOMAIN m |-> IF k \in ks THEN [m[k] EXCEPT !.frees = @ + 1] ELSE m[k]]

\* d, after a return of r that first frees the objects of the kinds in ks
Returned(d, r, ks) ==
    [d EXCEPT !.pc = "done", !.ret = r, !.mem = FreeKinds(d.mem, ks)]

\* lines 46-50: the loop that clears normalized_valid
NormalizedValid(d) ==
    \A i \in 1..NORMALIZED_DATA_SIZE :
        ~(FLess(d.normalized_data[i], F_0) \/ ~FLess(d.normalized_data[i], F_1))

\* lines 52-56: the loop that clears unnormalized_valid
UnnormalizedValid(d) ==
    \A i \in 1..UNNORMALIZED_DATA_SIZE :
        ~(\/ FLess(d.unnormalized_data[i], FNeg(F_1000))
          \/ ~FLess(d.unnormalized_data[i], F_1000))

\* lines 90-92: the fields of the two records that run_tests compares
FieldsDiffer(x, y) ==
    \/ x.message_key # y.message_key
    \/ x.sequence_number # y.sequence_number
    \/ x.sys_timestamp # y.sys_timestamp

\* lines 29-33: automation_data_new(MESSAGE_KEY, 1); return -1 if it failed
test_new ==
    /\ demo.pc = "t_new"
    /\ \E malloc_ok \in BOOLEAN :
          IF ~malloc_ok
          THEN /\ demo' = Returned(Logged("new failed"), -1, {})
               /\ UNCHANGED <<data, seeded>>
          ELSE \E tv_sec \in Times,
                  rn \in [1..NORMALIZED_DATA_SIZE -> RandVals],
                  ru \in [1..UNNORMALIZED_DATA_SIZE -> RandVals] :
                  /\ data' = Ptr(NewRecord(MESSAGE_KEY, 1, tv_sec, rn, ru))
                  /\ seeded' = SeedStep(seeded)
                  /\ demo' = [Logged("new") EXCEPT !.pc = "t_fields",
                                                    !.mem = Alloc(demo.mem, "data")]
    /\ UNCHANGED <<ser, des>>
    /\ UNCHANGED producerVars

\* lines 35-40: the check of message_key and sequence_number
test_fields ==
    /\ demo.pc = "t_fields"
    /\ IF Deref(data).message_key # MESSAGE_KEY \/ Deref(data).sequence_number # 1
       THEN /\ demo' = Returned(Using(Logged("fields not set"), {"data"}), -1, {"data"})
            /\ data' = NULL
       ELSE /\ demo' = [Using(Logged("fields"), {"data"}) EXCEPT !.pc = "t_ranges"]
            /\ UNCHANGED data
    /\ UNCHANGED <<ser, des, seeded>>
    /\ UNCHANGED producerVars

\* lines 42-69: the two range checks, each with its return -1
test_ranges ==
    /\ demo.pc = "t_ranges"
    /\ IF ~NormalizedValid(Deref(data))
       THEN /\ demo' = Returned(Using(Logged("normalized out of range"), {"data"}),
                                -1, {"data"})
            /\ data' = NULL
       ELSE IF ~UnnormalizedValid(Deref(data))
       THEN /\ demo' = Returned(Using(Logged("unnormalized out of range"), {"data"}),
                                -1, {"data"})
            /\ data' = NULL
       ELSE /\ demo' = [Using(Logged("ranges"), {"data"}) EXCEPT !.pc = "t_serialize"]
            /\ UNCHANGED data
    /\ UNCHANGED <<ser, des, seeded>>
    /\ UNCHANGED producerVars

\* lines 71-80: automation_data_serialize(data, &buffer, &size)
test_serialize ==
    /\ demo.pc = "t_serialize"
    /\ \E malloc_ok \in BOOLEAN, garbage \in GarbageBytes :
          LET s == SerializeCall(data, malloc_ok, garbage)
          IN  IF s.ret # 0
              THEN /\ demo' = Returned(Using(Logged("serialize failed"), {"data"}),
                                       -1, {"data"})
                   /\ ser' = s
                   /\ data' = NULL
              ELSE /\ demo' = [Using(Logged("serialize"), {"data"}) EXCEPT
                                  !.pc = "t_deserialize",
                                  !.mem = Alloc(demo.mem, "buffer")]
                   /\ ser' = s
                   /\ UNCHANGED data
    /\ UNCHANGED <<des, seeded>>
    /\ UNCHANGED producerVars

\* lines 82-88: automation_data_deserialize(buffer, size)
test_deserialize ==
    /\ demo.pc = "t_deserialize"
    /\ \E malloc_ok \in BOOLEAN, garbage \in GarbageBytes :
          LET r == DeserializeCall(ser.buffer, ser.size, malloc_ok, garbage)
          IN  IF r.result = NULL
              THEN /\ demo' = Returned(Using(Logged("deserialize failed"), {"buffer"}),
                                       -1, {"buffer", "data"})
                   /\ des' = r
                   /\ ser' = NoSer
                   /\ data' = NULL
              ELSE /\ demo' = [Using(Logged("deserialize"), {"buffer"}) EXCEPT
                                  !.pc = "t_compare",
                                  !.mem = Alloc(demo.mem, "deserialized")]
                   /\ des' = r
                   /\ UNCHANGED <<data, ser>>
    /\ UNCHANGED seeded
    /\ UNCHANGED producerVars

\* lines 90-99: the comparison of the deserialized record with the original
test_compare ==
    /\ demo.pc = "t_compare"
    /\ IF FieldsDiffer(Deref(des.result), Deref(data))
       THEN /\ demo' = Returned(Using(Logged("no match"), {"data", "deserialized"}),
                                -1, {"buffer", "data", "deserialized"})
            /\ data' = NULL
            /\ ser' = NoSer
            /\ des' = NoDes
       ELSE /\ demo' = [Using(Logged("match"), {"data", "deserialized"}) EXCEPT
                           !.pc = "t_cleanup"]
            /\ UNCHANGED <<data, ser, des>>
    /\ UNCHANGED seeded
    /\ UNCHANGED producerVars

\* as test_cleanup, without free(buffer)
test_cleanup_Leak ==
    /\ demo.pc = "t_cleanup"
    /\ demo' = Returned(Logged("cleanup"), 0, {"data", "deserialized"})
    /\ data' = NULL
    /\ ser' = NoSer
    /\ des' = NoDes
    /\ UNCHANGED seeded
    /\ UNCHANGED producerVars

\* lines 101-107: free(buffer), the two records freed, return 0
test_cleanup ==
    /\ demo.pc = "t_cleanup"
    /\ demo' = Returned(Logged("cleanup"), 0, {"buffer", "data", "deserialized"})
    /\ data' = NULL
    /\ ser' = NoSer
    /\ des' = NoDes
    /\ UNCHANGED seeded
    /\ UNCHANGED producerVars

TestsProgram ==
    \/ test_new
    \/ test_fields
    \/ test_ranges
    \/ test_serialize
    \/ test_deserialize
    \/ test_compare
    \/ test_cleanup

\* main, lines 194-211: --test enters run_tests, no argument run_kafka_demo
MainInit ==
    /\ CodecInit
    /\ ProducerInit
    /\ demo \in {Main("t_new"), Main("create")}

MainNext ==
    \/ TestsProgram
    \/ DemoNext

SpecMain == MainInit /\ [][MainNext]_vars

-----------------------------------------------------------------------------
(* Properties of the codec, checked under SpecCodec.                       *)

\* deserialize was handed exactly what serialize produced
DesOfSerialized ==
    /\ ser.called /\ ser.ret = 0
    /\ des.called /\ des.buffer = ser.buffer /\ des.size = ser.size

\* C1: round trip. automation_data_deserialize applied to the buffer and size that
\* automation_data_serialize(r) produced returns a record equal to r in
\* message_key, sequence_number, sys_timestamp and in every element of
\* normalized_data and unnormalized_data (it returns NULL only when the
\* allocation of the result fails).
C1_RoundTrip ==
    DesOfSerialized =>
        IF des.result = NULL THEN des.nomem
        ELSE LET r == Deref(data)
                 q == Deref(des.result)
             IN  /\ q.message_key = r.message_key
                 /\ q.sequence_number = r.sequence_number
                 /\ q.sys_timestamp = r.sys_timestamp
                 /\ \A i \in 1..NumSamples :
                       /\ q.normalized_data[i] = r.normalized_data[i]
                       /\ q.unnormalized_data[i] = r.unnormalized_data[i]

\* a round trip of a record with a negative sequence number and arrays that differ
C1_Witness ==
    /\ DesOfSerialized
    /\ des.result # NULL
    /\ Deref(data).sequence_number = INT32_MIN
    /\ Deref(data).sys_timestamp = U64OfNat(1700000000)
    /\ Deref(data).normalized_data[1] # Deref(data).normalized_data[2]
    /\ Deref(data).unnormalized_data[1].s = 1
    /\ Deref(des.result) = Deref(data)

\* C2: whenever automation_data_serialize returns 0 the reported size is exactly
\* 8 + 8 + 2*N*4 bytes whatever the record holds, which is 6,240,016 for the
\* program's N = 780000; the buffer has that length and the copied fields add up
\* to it (no framing, length prefix, version tag or checksum byte).
C2_SerializedSize ==
    /\ SerializedSizeFor(REAL_DATA_SIZE) = 6240016
    /\ (ser.called /\ ser.ret = 0) =>
          /\ ser.size = 8 + 8 + 2 * NumSamples * 4
          /\ Len(Deref(ser.buffer)) = ser.size
          /\ ser.size = ser.writes[1].len + ser.writes[2].len + ser.writes[3].len
                          + ser.writes[4].len + ser.writes[5].len

C2_Witness ==
    /\ ser.called /\ ser.ret = 0
    /\ ser.size = 16 + 8 * NumSamples
    /\ Deref(data).unnormalized_data[1].s = 1
    /\ Deref(data).sequence_number = INT32_MAX

\* C3: automation_data_deserialize with a size below L returns NULL without
\* reading a byte of the buffer, and every byte offset it reads is below the
\* size it was given. L is 8 + 8 + 2*N*4, and sizeof(AutomationData), the
\* bound the code compares with, is 6,240,016 for N = 780000.
C3_NoShortRead ==
    /\ SizeofAutomationDataFor(REAL_DATA_SIZE) = 6240016
    /\ des.called =>
          /\ des.size < 8 + 8 + 2 * NumSamples * 4 =>
                des.result = NULL /\ des.reads = <<>>
          /\ \A o \in ReadOffsets(des.reads) : o < des.size

\* a buffer one byte short of L is refused
C3_Witness ==
    /\ des.called
    /\ des.buffer # NULL
    /\ des.size = 8 + 8 + 2 * NumSamples * 4 - 1
    /\ des.result = NULL
    /\ des.reads = <<>>

F_NEG_1000 == FNeg(F_1000)

\* C4: every normalized_data element x of a generated record satisfies
\* 0.0 <= x < 1.0 and every unnormalized_data element y satisfies
\* -1000.0 <= y < 1000.0, for every value rand() can return.
C4_GeneratedRanges ==
    data # NULL =>
        \A i \in 1..NumSamples :
            /\ ~FLess(Deref(data).normalized_data[i], F_0)
            /\ FLess(Deref(data).normalized_data[i], F_1)
            /\ ~FLess(Deref(data).unnormalized_data[i], F_NEG_1000)
            /\ FLess(Deref(data).unnormalized_data[i], F_1000)

\* the stated wire layout for arrays of n floats
WireLayout(n) ==
    << [field |-> "message_key", off |-> 0, len |-> 4],
       [field |-> "sequence_number", off |-> 4, len |-> 4],
       [field |-> "sys_timestamp", off |-> 8, len |-> 8],
       [field |-> "normalized_data", off |-> 16, len |-> 4 * n],
       [field |-> "unnormalized_data", off |-> 16 + 4 * n, len |-> 4 * n] >>

\* C5: wire layout. In the buffer automation_data_serialize produces,
\* message_key is at bytes 0..3, sequence_number at 4..7, sys_timestamp at
\* 8..15, normalized_data[i] at 16+4i..19+4i and unnormalized_data[i] at
\* 16+4N+4i..19+4N+4i; every byte of the buffer belongs to exactly one field,
\* and automation_data_deserialize reads each field from the same offsets.
C5_WireLayout ==
    /\ (ser.called /\ ser.ret = 0) =>
          LET b == Deref(ser.buffer)
              r == Deref(data)
              N == NumSamples
          IN  /\ ser.writes = WireLayout(N)
              /\ SubSeq(b, 1, 4) = I32Bytes(r.message_key)
              /\ SubSeq(b, 5, 8) = I32Bytes(r.sequence_number)
              /\ SubSeq(b, 9, 16) = U64Bytes(r.sys_timestamp)
              /\ \A i \in 0..(N - 1) :
                    /\ SubSeq(b, 16 + 4 * i + 1, 19 + 4 * i + 1)
                          = F32Bytes(r.normalized_data[i + 1])
                    /\ SubSeq(b, 16 + 4 * N + 4 * i + 1, 19 + 4 * N + 4 * i + 1)
                          = F32Bytes(r.unnormalized_data[i + 1])
              /\ \A o \in 0..(ser.size - 1) :
                    Cardinality({k \in DOMAIN ser.writes :
                        ser.writes[k].off <= o
                        /\ o < ser.writes[k].off + ser.writes[k].len}) = 1
    /\ (des.called /\ des.result # NULL) => des.reads = WireLayout(NumSamples)

\* both functions have run on a record whose fields all differ
C5_Witness ==
    /\ DesOfSerialized
    /\ des.result # NULL
    /\ des.reads = ser.writes
    /\ Deref(data).sequence_number = INT32_MAX
    /\ Deref(data).normalized_data[1] # Deref(data).normalized_data[2]
    /\ Deref(data).unnormalized_data[1] # Deref(data).unnormalized_data[2]

-----------------------------------------------------------------------------
(* Properties of the producer, checked under Spec and FairSpec.            *)

DigitValue(c) == CHOOSE v \in 0..9 : DigitChars[v + 1] = c

\* minus the number that the digits spell
RECURSIVE ParseNegated(_, _)
ParseNegated(chars, acc) ==
    IF chars = <<>> THEN acc
    ELSE ParseNegated(Tail(chars), acc * 10 - DigitValue(Head(chars)))

\* the integer a decimal string spells
ParseInt(chars) ==
    IF Head(chars) = "-" THEN ParseNegated(Tail(chars), 0)
    ELSE -ParseNegated(chars, 0)

\* C6: every message kafka_send_automation_data hands to the client has the
\* caller's topic_name as topic, the L-byte serialization of the record as
\* value, the complete decimal string of the record's sequence_number as key
\* (for every int32_t, INT32_MIN included: the 32-byte buffer never cuts it),
\* and no headers.
C6_MessageHandedToClient ==
    [][ (pc = "idle" /\ pc' = "send_poll") =>
            LET m == outq'[Len(outq')]
                d == Deref(call'.data)
            IN  /\ outq' = Append(outq, m)
                /\ m.topic = Deref(call'.topic_name)
                /\ Len(m.value) = 8 + 8 + 2 * NumSamples * 4
                /\ m.value = SerializeImage(d, 0)
                /\ ParseInt(m.key) = d.sequence_number
                /\ m.key[1] = "-" <=> d.sequence_number < 0
                /\ m.headers = <<>>
      ]_vars

\* the record with sequence_number INT32_MIN was handed over with its full key
C6_Witness ==
    /\ pc = "send_poll"
    /\ Len(outq) > 0
    /\ Deref(call.data).sequence_number = INT32_MIN
    /\ outq[Len(outq)].key = <<"-", "2", "1", "4", "7", "4", "8", "3", "6", "4", "8">>
    /\ outq[Len(outq)].topic = "other-topic"

\* C7: publish is asynchronous. Once the client has accepted the record,
\* kafka_send_automation_data can return 0 whatever the broker has done with
\* it, and a call can be made and return in every state of the broker and of
\* the queue.
C7_PublishNeverWaits ==
    /\ pc = "send_poll" => ENABLED kafka_send_poll
    /\ (pc = "idle" /\ IsLive(producer) /\ accepted < MaxSends) =>
          ENABLED kafka_send_automation_data

\* publish has returned 0 and the record's delivery report has not occurred
C7_Witness ==
    /\ call.op = "send" /\ call.returned /\ call.ret = 0
    /\ pc = "idle"
    /\ broker = "unreachable"
    /\ \E i \in DOMAIN outq : outq[i].id = accepted
    /\ accepted \notin Delivered

\* C8: whenever kafka_send_automation_data returns -1 (a NULL argument, a
\* failed serialization, or rd_kafka_producev refusing the message because the
\* queue is full or the message is too large) no message has been added to
\* the client's queue, the outstanding records are unchanged, and the call
\* made at most one enqueue attempt.
C8_FailedSendEnqueuesNothing ==
    [][ (kafka_send_automation_data /\ call'.returned /\ call'.ret = -1) =>
            /\ outq' = outq
            /\ drq' = drq
            /\ callbacks' = callbacks
            /\ accepted' = accepted
            /\ call'.attempts <= 1
      ]_vars

\* a call was refused because the queue was full
C8_Witness ==
    /\ call.op = "send" /\ call.returned /\ call.ret = -1
    /\ call.attempts = 1
    /\ "message.max.bytes" \in Deref(producer).conf
    /\ Len(outq) = MaxQueue

\* every record enqueued so far has had its delivery report served
AllAcknowledged == \A id \in 1..accepted : id \in Delivered

\* kafka_producer_flush returns to its caller in this step
FlushReturns ==
    \/ pc = "flushing" /\ pc' = "idle"
    \/ kafka_producer_flush /\ call'.returned

\* C9 as stated: kafka_producer_flush(p, timeout) returns 0 exactly when every
\* record enqueued before the call has been acknowledged at the moment it
\* returns, and a nonzero value exactly when the timeout elapsed with such a
\* record still unacknowledged.
C9_FlushResultAsStated ==
    [][ FlushReturns =>
            /\ call'.ret = 0 <=> AllAcknowledged'
            /\ call'.ret # 0 <=>
                  (pc = "flushing" /\ remaining = 0 /\ ~AllAcknowledged')
      ]_vars

\* C9, amended: for a producer that is not NULL, kafka_producer_flush returns 0
\* exactly when every record enqueued before the call has been acknowledged at
\* the moment it returns, and a nonzero value exactly when the timeout elapsed
\* with such a record still unacknowledged; either way the producer is left as
\* it was, live and idle. (With a NULL producer it returns -1 at once.)
C9_FlushResult ==
    [][ (FlushReturns /\ ~call'.producer_null) =>
            /\ call'.ret = 0 <=> AllAcknowledged'
            /\ call'.ret # 0 <=>
                  (pc = "flushing" /\ remaining = 0 /\ ~AllAcknowledged')
            /\ producer' = producer /\ IsLive(producer') /\ pc' = "idle"
      ]_vars

\* a flush timed out with one of two records acknowledged
C9_Witness ==
    /\ call.op = "flush" /\ call.returned /\ ~call.producer_null
    /\ call.ret = RD_KAFKA_RESP_ERR__TIMED_OUT
    /\ accepted = 2
    /\ Delivered = {1}
    /\ IsLive(producer)

\* C10: every call of kafka_producer_flush with a finite timeout returns,
\* whether or not the broker ever acknowledges the outstanding records.
C10_FlushTerminates ==
    (pc = "flushing" /\ call.timeout_ms >= 0) ~> (pc = "idle")

\* a flush returned although the broker is unreachable and a record is unsent
C10_Witness ==
    /\ call.op = "flush" /\ call.returned /\ ~call.producer_null
    /\ call.ret # 0
    /\ broker = "unreachable"
    /\ Len(outq) > 0
    /\ Delivered = {}

\* the records the client still holds: queued, in flight, or with a report to serve
Held == {outq[i].id : i \in DOMAIN outq} \cup {drq[i].id : i \in DOMAIN drq}

\* C11: the delivery callback is invoked at most once per record: no two
\* invocations are for the same record, every invocation is for a record whose
\* publish was accepted (a publish that returned -1 created no record and gets no
\* callback), each carries either success with a partition and an offset or an
\* error, and a record the callback has fired for is no longer held.
C11_CallbackOncePerRecord ==
    /\ \A i, j \in DOMAIN callbacks : callbacks[i].id = callbacks[j].id => i = j
    /\ \A i \in DOMAIN callbacks :
          /\ callbacks[i].id \in 1..accepted
          /\ callbacks[i].id \notin Held
          /\ \/ callbacks[i].err = 0 /\ callbacks[i].partition >= 0
                                     /\ callbacks[i].offset >= 0
             \/ callbacks[i].err # 0
    /\ Len(callbacks) + Cardinality(Held) <= accepted

\* the callback has fired with success for one record and with an error for
\* another, and the last publish returned -1
C11_Witness ==
    /\ \E i, j \in DOMAIN callbacks : callbacks[i].err = 0 /\ callbacks[j].err # 0
    /\ call.op = "send" /\ call.returned /\ call.ret = -1
    /\ Len(callbacks) = accepted

\* the settings the client rejected when the producer was constructed
Rejected(p) == Settings \ Deref(p).conf

\* C12: construction fails if the client rejects any setting: a producer exists
\* only if none of bootstrap.servers, message.max.bytes, compression.type,
\* batch.size and linger.ms was rejected.
C12_RejectedSettingFailsConstruction ==
    producer # NULL => Rejected(producer) = {}

\* C13: construction is atomic: kafka_producer_create returns NULL, or a
\* producer with a live client handle, every setting applied and the delivery
\* callback registered; never a partially configured one.
C13_ConstructionAtomic ==
    [][ kafka_producer_create =>
            \/ producer' = NULL
            \/ /\ IsLive(producer')
               /\ Deref(producer').dr_msg_cb
               /\ Deref(producer').conf = Settings
      ]_vars

\* C14: close is terminal: once kafka_producer_free has been called on a
\* producer, no later publish, flush or close on that handle goes through to the
\* released client handle; every such call returns -1, as a usage error.
C14_CloseIsTerminal ==
    [][ (producer # NULL /\ ~Deref(producer).live /\ call' # call) =>
            /\ ~call'.released
            /\ call'.returned /\ call'.ret = -1
            /\ outq' = outq /\ accepted' = accepted
      ]_vars

\* C15: flush returns the producer to Running. When kafka_producer_flush
\* returns, with a zero or a nonzero result, the producer is the one it was,
\* live, with its queue untouched; and a publish that follows a flush is accepted
\* exactly when the queue has room and the message fits, as for any publish.
C15_FlushReturnsToRunning ==
    [][ /\ (pc = "flushing" /\ pc' = "idle") =>
              /\ producer' = producer /\ IsLive(producer')
              /\ outq' = outq /\ accepted' = accepted
        /\ (/\ call.op = "flush" /\ call.returned
            /\ ~call.producer_null /\ ~call.released
            /\ kafka_send_automation_data /\ call'.attempts = 1) =>
              (pc' = "send_poll" <=>
                  /\ OutqLen < MaxQueue
                  /\ ProgramBytes(SerializedSize) <= MessageMaxBytes(producer))
      ]_vars

\* a flush has timed out with a record outstanding, and the producer accepts
\* the next publish
C15_Witness ==
    /\ call.op = "flush" /\ call.returned /\ ~call.producer_null
    /\ call.ret # 0
    /\ Len(outq) > 0
    /\ ENABLED (kafka_send_automation_data /\ pc' = "send_poll")

\* C16: a delivery failure is purely observational. In a step that serves the
\* report of a record that failed after its publish was accepted, the callback
\* runs once for each report served and nothing else changes: the queue is as
\* it was (the record is not enqueued again), the count of accepted records,
\* the producer and its allocations are unchanged, and a publish in progress
\* still returns 0.
C16_DeliveryFailureObservational ==
    [][ (callbacks' # callbacks /\ \E i \in DOMAIN drq : drq[i].err # 0) =>
            /\ Len(callbacks') = Len(callbacks) + Len(drq)
            /\ SubSeq(callbacks', 1, Len(callbacks)) = callbacks
            /\ \A i \in DOMAIN drq :
                  /\ callbacks'[Len(callbacks) + i].id = drq[i].id
                  /\ callbacks'[Len(callbacks) + i].err = drq[i].err
            /\ outq' = outq
            /\ accepted' = accepted
            /\ producer' = producer
            /\ heap' = heap
            /\ UNCHANGED <<codecVars, demo>>
            /\ pc = "send_poll" => (call'.returned /\ call'.ret = 0)
      ]_vars

\* the last record failed, its report was served by a flush, and that flush
\* returned 0
C16_Witness ==
    /\ call.op = "flush" /\ call.returned /\ ~call.producer_null /\ call.ret = 0
    /\ accepted > 0
    /\ \E i \in DOMAIN callbacks :
          callbacks[i].id = accepted /\ callbacks[i].err = RD_KAFKA_RESP_ERR__MSG_TIMED_OUT
    /\ IsLive(producer)

\* C20: Scenario C. With the broker unreachable, a publish the client has room
\* for is accepted, and a following flush with a finite timeout that returns
\* with the record still unacknowledged returns a value greater than zero.
C20_UnreachableFlushPositive ==
    [][ /\ (/\ broker = "unreachable" /\ kafka_send_automation_data
            /\ call'.attempts = 1 /\ OutqLen < MaxQueue
            /\ ProgramBytes(SerializedSize) <= MessageMaxBytes(producer)) =>
              pc' = "send_poll"
        /\ (/\ broker = "unreachable" /\ pc = "flushing" /\ pc' = "idle"
            /\ call.timeout_ms >= 0 /\ Len(outq) > 0) =>
              call'.ret > 0
      ]_vars

-----------------------------------------------------------------------------
(* Properties of run_kafka_demo, checked under SpecDemo and ScenarioB.     *)

\* how often run_kafka_demo has done op
Count(op) == Cardinality({k \in DOMAIN demo.log : demo.log[k] = op})

\* C17: orchestrator ordering. In each iteration generate is followed by the
\* accounting serialization, that by publish, that by the pacing wait; a pacing
\* wait lies between any two publish calls; flush is called once, after the last
\* publish and straight before close; close is called once and is the last
\* operation on the producer.
C17_OrchestratorOrdering ==
    LET log == demo.log
    IN  /\ \A k \in DOMAIN log :
              /\ log[k] = "generate" /\ k < Len(log) =>
                    log[k + 1] \in {"account", "account failed"}
              /\ log[k] \in {"account", "account failed"} =>
                    /\ k > 1 /\ log[k - 1] = "generate"
                    /\ k < Len(log) => log[k + 1] = "publish"
              /\ log[k] = "publish" =>
                    /\ k > 1 /\ log[k - 1] \in {"account", "account failed"}
                    /\ k < Len(log) => log[k + 1] = "pace"
              /\ log[k] = "pace" => k > 1 /\ log[k - 1] = "publish"
              /\ log[k] = "flush" =>
                    /\ \A j \in DOMAIN log : j > k => log[j] = "close"
                    /\ \A j \in DOMAIN log : log[j] = "publish" => j < k
              /\ log[k] = "close" => k = Len(log) /\ k > 1 /\ log[k - 1] = "flush"
        /\ \A j, k \in DOMAIN log :
              (j < k /\ log[j] = "publish" /\ log[k] = "publish") =>
                  \E m \in (j + 1)..(k - 1) : log[m] = "pace"
        /\ Count("flush") <= 1 /\ Count("close") <= 1
        /\ (demo.pc = "done" /\ demo.ret = 0) =>
              /\ Count("flush") = 1 /\ Count("close") = 1
              /\ Count("generate") + Count("generate failed") = NUM_MESSAGES
              /\ ~IsLive(producer)

\* a run in which every record was published has ended
C17_Witness ==
    /\ demo.pc = "done" /\ demo.ret = 0
    /\ Count("publish") = NUM_MESSAGES
    /\ Count("pace") = NUM_MESSAGES

\* total_raw_size is L for every iteration whose generation and accounting
\* serialization both succeeded
TotalIsAccounted ==
    /\ demo.total_raw_size = SerializedSize * Count("account")
    /\ REAL_NUM_MESSAGES * SerializedSizeFor(REAL_DATA_SIZE) = 62400160

\* C18 as stated: byte accounting. At every point total_raw_size is L times the
\* number of iterations in which generation and the accounting serialization
\* both succeeded, whether or not publish succeeded; hence after a run in which
\* every generation succeeded it is NUM_MESSAGES x L.
C18_ByteAccountingAsStated ==
    /\ TotalIsAccounted
    /\ (demo.pc = "done" /\ Count("generate") = NUM_MESSAGES) =>
          demo.total_raw_size = NUM_MESSAGES * SerializedSize

\* C18, amended: at every point total_raw_size is L times the number of
\* iterations in which generation and the accounting serialization both
\* succeeded, whether or not publish succeeded; hence after a run in which every
\* generation and every accounting serialization succeeded it is NUM_MESSAGES x L.
C18_ByteAccounting ==
    /\ TotalIsAccounted
    /\ (demo.pc = "done" /\ Count("generate") = NUM_MESSAGES
          /\ Count("account") = NUM_MESSAGES) =>
          demo.total_raw_size = NUM_MESSAGES * SerializedSize
    /\ demo.total_raw_size <= Count("generate") * SerializedSize

\* the run has ended with every record accounted and none accepted for publish
C18_Witness ==
    /\ demo.pc = "done" /\ demo.ret = 0
    /\ demo.total_raw_size = NUM_MESSAGES * SerializedSize
    /\ Count("publish") = NUM_MESSAGES
    /\ accepted = 0

\* the callback has fired with success for every record the client accepted
AllDeliveredWithSuccess ==
    \A id \in 1..accepted :
        \E k \in DOMAIN callbacks : callbacks[k].id = id /\ callbacks[k].err = 0

\* C19: Scenario B. In a run against a reachable broker that goes on
\* acknowledging, once all NUM_MESSAGES records have been accepted for publish,
\* the producer is eventually closed with the delivery callback fired with
\* success for each of them.
C19_ScenarioBDelivered ==
    (demo.pc = "flush" /\ accepted = NUM_MESSAGES)
        ~> (demo.pc = "done" /\ AllDeliveredWithSuccess)

-----------------------------------------------------------------------------
(* Further properties of the producer, checked under Spec.                 *)

\* C21: kafka_producer_flush returns 0 when the flush succeeded and -1 in every
\* error case, a NULL producer or a flush that did not complete within
\* timeout_ms; it returns nothing but 0 and -1.
C21_FlushReturnsZeroOrMinusOne ==
    (call.op = "flush" /\ call.returned /\ ~call.released) =>
        /\ call.ret \in {0, -1}
        /\ call.producer_null => call.ret = -1
        /\ (~call.producer_null /\ OutqLen > 0 /\ IsLive(producer)) => call.ret = -1

\* C28: on every failure path of kafka_producer_create all that was acquired is
\* released before NULL is returned: no KafkaProducer and no rd_kafka_conf_t
\* stays allocated, after a failure of rd_kafka_new in particular.
C28_CreateFailureReleasesAll ==
    [][ (kafka_producer_create /\ producer' = NULL) => heap' = heap ]_vars

\* C24: the configured message.max.bytes, 10,485,760, is at least L =
\* 6,240,016, so for a producer that has the setting no record's serialized
\* value is over the ceiling: every queued value is within it, and
\* rd_kafka_producev refuses a record only when the queue is full.
C24_CeilingAtLeastL ==
    /\ MESSAGE_MAX_BYTES >= SerializedSizeFor(REAL_DATA_SIZE)
    /\ (IsLive(producer) /\ "message.max.bytes" \in Deref(producer).conf) =>
          /\ MessageMaxBytes(producer) >= SerializedSizeFor(REAL_DATA_SIZE)
          /\ \A k \in DOMAIN outq :
                ProgramBytes(Len(outq[k].value)) <= MessageMaxBytes(producer)
          /\ (/\ call.op = "send" /\ call.returned /\ call.ret = -1
              /\ call.attempts = 1) => OutqLen >= MaxQueue

\* a record of L bytes is queued in a producer that has the setting
C24_Witness ==
    /\ IsLive(producer) /\ "message.max.bytes" \in Deref(producer).conf
    /\ Len(outq) > 0
    /\ ProgramBytes(Len(outq[1].value)) = 6240016
    /\ call.op = "send" /\ call.returned /\ call.ret = 0

\* C25: single ownership of the serialized buffer in publish. While the call
\* is between rd_kafka_producev and its return the buffer has not been freed;
\* when kafka_send_automation_data has returned, the buffer has been freed once
\* if automation_data_serialize produced one (the call got as far as
\* rd_kafka_producev) and not at all otherwise; and every queued message was
\* handed over with RD_KAFKA_MSG_F_COPY, so the queue holds its own copy.
C25_BufferSingleOwner ==
    /\ pc = "send_poll" => (call.attempts = 1 /\ call.frees = 0)
    /\ (call.op = "send" /\ call.returned /\ ~call.released) =>
          call.frees = IF call.attempts >= 1 THEN 1 ELSE 0
    /\ \A k \in DOMAIN outq : outq[k].msgflags = RD_KAFKA_MSG_F_COPY

\* a publish was refused with the queue full and freed its buffer
C25_Witness ==
    /\ call.op = "send" /\ call.returned /\ call.ret = -1
    /\ call.attempts = 1 /\ call.frees = 1
    /\ Len(outq) > 0

-----------------------------------------------------------------------------
(* Further properties of run_kafka_demo, checked under SpecDemo.           *)

\* C22: within one run every generated record carries message_key 12345, and
\* the sequence_number of each is greater than that of every record generated
\* before it and lies in 0 .. NUM_MESSAGES - 1, also when iterations fail to
\* generate or to publish.
C22_KeyConstantSequenceIncreasing ==
    LET g == demo.generated
    IN  /\ \A k \in DOMAIN g :
              /\ g[k].message_key = 12345
              /\ g[k].sequence_number \in 0..(NUM_MESSAGES - 1)
        /\ \A j, k \in DOMAIN g :
              j < k => g[j].sequence_number < g[k].sequence_number
        /\ data # NULL =>
              /\ Len(g) > 0
              /\ Deref(data).sequence_number = g[Len(g)].sequence_number
              /\ Deref(data).message_key = g[Len(g)].message_key

\* the run has ended with every record generated and not all of them accepted
\* for publish
C22_Witness ==
    /\ demo.pc = "done" /\ demo.ret = 0
    /\ Len(demo.generated) = NUM_MESSAGES
    /\ accepted < NUM_MESSAGES
    /\ demo.generated[NUM_MESSAGES].sequence_number = NUM_MESSAGES - 1

\* C23: the random source is seeded exactly once: srand has been called once
\* as soon as one automation_data_new has reached sample generation, and no
\* later call of automation_data_new calls it again.
C23_SeededOnce ==
    /\ seeded.srand_calls = IF Len(demo.generated) > 0 THEN 1 ELSE 0
    /\ seeded.seeded = seeded.srand_calls

\* two records have been generated and srand was called once
C23_Witness ==
    /\ Len(demo.generated) >= 2
    /\ seeded.srand_calls = 1
    /\ data # NULL

\* C29: run_kafka_demo returns -1 only when kafka_producer_create fails. Once
\* the producer exists the run always comes to its end and returns 0, having
\* gone through all NUM_MESSAGES iterations, one publish for each generated
\* record and none repeated, then one flush, then one close, whatever
\* generation, publish and flush returned.
C29_DemoRunsToCompletion ==
    /\ [](demo.pc = "done" =>
            /\ demo.ret \in {0, -1}
            /\ demo.ret = -1 <=> producer = NULL
            /\ demo.ret = 0 =>
                  /\ demo.i = NUM_MESSAGES
                  /\ Count("generate") + Count("generate failed") = NUM_MESSAGES
                  /\ Count("publish") = Count("generate")
                  /\ accepted <= Count("publish")
                  /\ Count("flush") = 1 /\ Count("close") = 1
                  /\ producer # NULL /\ ~IsLive(producer))
    /\ <>(demo.pc = "done")

\* a run has returned 0 after a failed generation and a flush that timed out
C29_Witness ==
    /\ demo.pc = "done" /\ demo.ret = 0
    /\ Count("generate failed") >= 1
    /\ call.op = "flush" /\ call.returned /\ call.ret # 0

\* C27: the delivery callback shares no state with the foreground. Whenever
\* callbacks run, interleaved with the generate, serialize, publish and flush
\* steps of a run, they only add lines to the output: the records queued, the
\* count of accepted publishes, the producer, the record and the buffers of
\* the codec and the orchestrator's counter, byte total and records are as
\* they were, and the call that polled carries on as it would have without a
\* report: a publish returns 0, a flush that is entered is still in progress,
\* and a flush that is waiting is unchanged.
C27_CallbackSharesNoState ==
    [][ callbacks' # callbacks =>
            /\ Len(callbacks') > Len(callbacks)
            /\ SubSeq(callbacks', 1, Len(callbacks)) = callbacks
            /\ UNCHANGED <<outq, accepted, producer, heap, broker>>
            /\ UNCHANGED codecVars
            /\ demo'.i = demo.i
            /\ demo'.total_raw_size = demo.total_raw_size
            /\ demo'.generated = demo.generated
            /\ demo'.mem = demo.mem
            /\ demo'.ret = demo.ret
            /\ pc = "send_poll" => /\ call'.returned /\ call'.ret = 0
                                   /\ pc' = "idle" /\ demo' = demo
            /\ pc = "idle" => /\ ~call'.returned /\ call'.op = "flush"
                              /\ pc' = "flushing" /\ demo'.pc = "stats"
            /\ pc = "flushing" => /\ call' = call /\ pc' = pc /\ demo' = demo
                                  /\ remaining' = remaining
      ]_vars

\* the report of the first record was served by the poll of the second
\* publish, which returned 0 with its own record still queued
C27_Witness ==
    /\ demo.pc # "none"
    /\ call.op = "send" /\ call.returned /\ call.ret = 0
    /\ accepted = NUM_MESSAGES
    /\ Len(callbacks) >= 1
    /\ \E i \in DOMAIN outq : outq[i].id = accepted

-----------------------------------------------------------------------------
(* Properties of main.c as a whole, checked under SpecMain.                *)

\* C30: in run_kafka_demo and run_tests, on every path, each record got
\* from automation_data_new or automation_data_deserialize and each buffer got
\* from a successful automation_data_serialize is freed exactly once and not
\* used after it was freed, and the producer is freed exactly once: nothing is
\* used while it is not allocated, nothing is freed that is not allocated, and
\* when the function returns everything it allocated has been freed.
C30_FreedExactlyOnce ==
    /\ ~demo.stale
    /\ \A k \in DOMAIN demo.mem :
          /\ demo.mem[k].frees <= demo.mem[k].allocs
          /\ Live(demo.mem, k) <= 1
          /\ demo.pc = "done" => demo.mem[k].frees = demo.mem[k].allocs

\* run_tests has returned 0 with a record, a buffer and a deserialized record
\* allocated and freed
C30_Witness ==
    /\ demo.pc = "done" /\ demo.ret = 0
    /\ demo.mem["data"].allocs = 1
    /\ demo.mem["buffer"].frees = 1
    /\ demo.mem["deserialized"].frees = 1

\* C26: records and buffers are not changed after their creation. While a
\* record, a serialized buffer or a deserialized record exists, no step changes
\* it; the step in which automation_data_serialize succeeds, the step of
\* automation_data_print_summary and the step in which
\* kafka_send_automation_data is called leave the record they are given as it
\* was, and the step in which automation_data_deserialize succeeds leaves its
\* input buffer as it was.
C26_NoMutationAfterCreation ==
    [][ /\ (data # NULL /\ data' # NULL) => data' = data
        /\ (ser.buffer # NULL /\ ser'.buffer # NULL) => ser'.buffer = ser.buffer
        /\ (des.result # NULL /\ des'.result # NULL) => des'.result = des.result
        /\ (ser.buffer = NULL /\ ser'.buffer # NULL) => data' = data
        /\ (demo.pc = "account" /\ demo'.pc # demo.pc) => data' = data
        /\ (call' # call /\ call'.op = "send" /\ pc = "idle") => data' = data
        /\ (des.result = NULL /\ des'.result # NULL) =>
              /\ ser' = ser
              /\ des'.buffer = ser.buffer
              /\ data' = data
      ]_vars

\* a record that was serialized, printed and published is as it was generated
C26_Witness ==
    /\ demo.pc = "free_data" /\ pc = "idle"
    /\ call.op = "send" /\ call.returned /\ call.ret = 0
    /\ ser.called /\ ser.ret = 0
    /\ data # NULL
    /\ Deref(data).sequence_number = demo.generated[Len(demo.generated)].sequence_number
    /\ Deref(data).sys_timestamp = U64OfNat(1700000000)

=============================================================================
